---- MODULE Spec2Model ----
(***************************************************************************)
(* Lowering of structured pointers (tts.make_tptr) and of the loads and    *)
(* stores through them to buffer views, as implemented in                  *)
(* lib/Conversion/StructuredToMemref/StructuredToMemref.cpp.               *)
(*                                                                         *)
(* The IR under conversion holds one pointer operation and at most one     *)
(* user of it (a load or a store).  The three rewrite patterns are the     *)
(* actions; the instructions a pattern emits are kept in emission order    *)
(* and then run one at a time against a dense destination buffer.          *)
(***************************************************************************)
EXTENDS Integers, Sequences, FiniteSets, TLC

\* ------------------------------------------------------------------ bounds
\* largest requested extent of one dimension
MaxSize == 2
\* largest stride value
MaxStride == 2
\* largest per-dimension offset of a non-wrapping pointer
MaxOffset == 1
\* largest wrap period (columns of a side-by-side wrap, rows of a stacked one)
MaxMod == 3

\* --------------------------------------------------------------- utilities
Min(a, b) == IF a < b THEN a ELSE b

Abs(a) == IF a < 0 THEN -a ELSE a

\* arith.remsi: remainder of the division truncated towards zero
RemSI(a, b) == IF a >= 0 THEN a % Abs(b) ELSE -((-a) % Abs(b))

\* arith.divsi: division truncated towards zero
DivSI(a, b) ==
  IF (a >= 0) = (b > 0) THEN Abs(a) \div Abs(b) ELSE -(Abs(a) \div Abs(b))

\* An OpFoldResult: a compile-time integer (static) or a run-time value.
Static(v) == [static |-> TRUE, val |-> v]

Dynamic(v) == [static |-> FALSE, val |-> v]

\* ofrToIndexValue / ofrsToIndexValues: every quantity becomes a run-time value
ofrToIndexValue(o) == Dynamic(o.val)

\* addOFRs: folds when both operands are static, otherwise emits an addition
addOFRs(l, r) ==
  IF l.static /\ r.static THEN Static(l.val + r.val) ELSE Dynamic(l.val + r.val)

\* minOFRs: constant-folding minimum
minOFRs(l, r) ==
  IF l.static /\ r.static THEN Static(Min(l.val, r.val))
  ELSE Dynamic(Min(l.val, r.val))

\* subOFRs: constant-folding subtraction
subOFRs(l, r) ==
  IF l.static /\ r.static THEN Static(l.val - r.val) ELSE Dynamic(l.val - r.val)

RECURSIVE ProductFrom(_, _)
\* product of sizes[i], sizes[i+1], ..., sizes[Len(sizes)]
ProductFrom(sizes, i) ==
  IF i > Len(sizes) THEN 1 ELSE sizes[i] * ProductFrom(sizes, i + 1)

\* ------------------------------------------------- the pointer materializer
WRAP_SIDE_BY_SIDE == "wrap_side_by_side"

WRAP_STACKED == "wrap_stacked"

NoWrap == "none"

\* ShapedType::kDynamic: the place of a run-time quantity in a static type
kDynamic == [static |-> FALSE, val |-> 0]

\* the static part of a mixed quantity: its value when static, else kDynamic
staticPart(o) == IF o.static THEN o ELSE kDynamic

\* the static part of the parent shape
getStaticShape(op) == [i \in 1..Len(op.shape) |-> staticPart(op.shape[i])]

isBlockPtr(op) == op.kind = "Block"

isStructuredPtr(op) == op.kind = "Structured"

isSplitPtr(op) == op.kind = "Split"

\* llvm::is_sorted(order, std::greater<>()): no entry is greater than its predecessor
isSortedGreater(order) ==
  \A i \in 1..(Len(order) - 1) : ~(order[i + 1] > order[i])

\* tensor<..x!tt.ptr<elem>>: the pointee of the tensor's element type
getElementTypeStructuredPtr(op) == op.type.tensorOf.ptrTo

\* !tt.ptr<tensor<..xelem>>: the element type of the pointee tensor
getElementTypeBlockPtr(op) == op.type.ptrTo.tensorOf

\* the shape the pointer's type carries
typeShape(op) == op.type.shape

getResultMemrefType(op, offset, staticStrides, resultShape) ==
  [offset |-> offset, strides |-> staticStrides, shape |-> resultShape,
   elemType |-> IF isBlockPtr(op) THEN getElementTypeBlockPtr(op)
                ELSE getElementTypeStructuredPtr(op)]

\* faulty variant of MemrefStride: accumulate is never multiplied
MemrefStrideNoAccumulate(op, i) ==
  IF op.sizes[i] = 1 /\ op.strides[i].static /\ op.strides[i].val = 0
  THEN Static(1)
  ELSE op.strides[i]

\* the stride emitted for dimension i: accumulate holds the product of the sizes
\* already visited by the reversed loop, those of the dimensions after i
MemrefStride(op, i) ==
  IF op.sizes[i] = 1 /\ op.strides[i].static /\ op.strides[i].val = 0
  THEN Static(ProductFrom(op.sizes, i + 1))
  ELSE op.strides[i]

getMixedStridesForMemref(op) ==
  [i \in 1..Len(op.sizes) |-> MemrefStride(op, i)]

RECURSIVE AccumulateFrom(_, _)
AccumulateFrom(offsets, i) ==
  IF i = 0 THEN Static(0)
  ELSE addOFRs(AccumulateFrom(offsets, i - 1), offsets[i])

\* faulty variant of accumulateTargetOffset: the last offset is left out
accumulateTargetOffsetSkipLast(op) ==
  AccumulateFrom(op.offsets, Len(op.offsets) - 1)

\* the scalar start offset: the sum of the per-dimension offsets
accumulateTargetOffset(op) == AccumulateFrom(op.offsets, Len(op.offsets))

\* a memref.reinterpret_cast: a view of base, no data movement
ReinterpretCast(type, base, offset, sizes, strides) ==
  [type |-> type, base |-> base, offset |-> offset, sizes |-> sizes,
   strides |-> strides]

\* the type of both chunks of a split pointer: everything is dynamic
SplitResultType(op) ==
  getResultMemrefType(op, kDynamic, [i \in 1..Len(typeShape(op)) |-> kDynamic],
                      <<kDynamic, kDynamic>>)

\* faulty variant of SideBySideD1: the end of the first chunk is not clamped
SideBySideD1NoClamp(x, colSize, modN) == (x + colSize) - x

\* width of the first side-by-side chunk
SideBySideD1(x, colSize, modN) == Min(x + colSize, modN) - x

createSideBySideCastOps(op) ==
  LET targetOffset == ofrToIndexValue(accumulateTargetOffset(op))
      rowSize == op.sizes[1]
      colSize == op.sizes[2]
      modN == ofrToIndexValue(op.shape[2])
      x == RemSI(targetOffset.val, modN.val)
      y == targetOffset.val - x
      strideVals == [i \in 1..Len(op.strides) |-> ofrToIndexValue(op.strides[i])]
      d1 == SideBySideD1(x, colSize, modN.val)
      d2 == colSize - d1
  IN  << ReinterpretCast(SplitResultType(op), op.base, targetOffset,
                         <<rowSize, d1>>, strideVals),
         ReinterpretCast(SplitResultType(op), op.base, Dynamic(y),
                         <<rowSize, d2>>, strideVals) >>

\* number of rows of the first stacked chunk
StackedD1(targetOffset, strideRow, modRow) ==
  LET wrappedAroundOff == RemSI(targetOffset, strideRow)
      clampedOff == modRow + wrappedAroundOff
  IN  DivSI(clampedOff - targetOffset, strideRow)

createStackedCastOps(op) ==
  LET targetOffset == ofrToIndexValue(accumulateTargetOffset(op))
      rowSize == op.sizes[1]
      colSize == op.sizes[2]
      strideRow == ofrToIndexValue(op.strides[1])
      strideCol == ofrToIndexValue(op.strides[2])
      modRow == op.shape[1].val
      wrappedAroundOff == RemSI(targetOffset.val, strideRow.val)
      d1 == StackedD1(targetOffset.val, strideRow.val, modRow)
      d2 == rowSize - d1
  IN  << ReinterpretCast(SplitResultType(op), op.base, targetOffset,
                         <<d1, colSize>>, <<strideRow, strideCol>>),
         ReinterpretCast(SplitResultType(op), op.base,
                         Dynamic(wrappedAroundOff), <<d2, colSize>>,
                         <<strideRow, strideCol>>) >>

\* the two chunks and the marker set on the cast that bundles them
rewriteSplitPtr(op) ==
  IF getStaticShape(op)[1] = kDynamic
  THEN [casts |-> createStackedCastOps(op), attr |-> WRAP_STACKED]
  ELSE [casts |-> createSideBySideCastOps(op), attr |-> WRAP_SIDE_BY_SIDE]

\* the single view of a structured or block pointer
rewritePtr(resultShape, op) ==
  LET mixedStrides == getMixedStridesForMemref(op)
      staticStrides == [i \in 1..Len(mixedStrides) |-> staticPart(mixedStrides[i])]
      targetOffset == accumulateTargetOffset(op)
      resultType == getResultMemrefType(op, staticPart(targetOffset),
                                        staticStrides, resultShape)
  IN  [casts |-> << ReinterpretCast(resultType, op.base, targetOffset,
                                    op.sizes, mixedStrides) >>,
       attr |-> NoWrap]

rewriteStructuredPtr(op) == rewritePtr(op.type.shape, op)

rewriteBlockPtr(op) == rewritePtr(op.type.ptrTo.shape, op)

OrderDiagnostic ==
  "non-decreasing dimension order on tensor pointers are not yet supported"

\* ------------------------------------------------------- the load lowerer
Zeros(rank) == [i \in 1..rank |-> 0]

Ones(rank) == [i \in 1..rank |-> 1]

\* a view a copy reads: cast number blk (1 or 2) of the pointer, or the
\* sub-view of it with offsets 0, unit steps and the given extents; blk 0 is
\* the value a store writes
ViewRef(blk, sizes) ==
  [blk |-> blk, sizes |-> sizes, offsets |-> Zeros(Len(sizes)),
   steps |-> Ones(Len(sizes))]

NoView == ViewRef(0, <<>>)

\* an emitted operation: what it reads, the buffer it targets, the sub-view
\* of the target it writes, the condition it runs under and its writable flag
Instr(op, src, target, dstOffsets, dstSizes, cond, writable) ==
  [op |-> op, src |-> src, target |-> target, dstOffsets |-> dstOffsets,
   dstSizes |-> dstSizes, dstSteps |-> Ones(Len(dstSizes)), cond |-> cond,
   writable |-> writable]

\* memref.alloc of a dense buffer
AllocOp(shape) ==
  Instr("alloc", NoView, "alloc", Zeros(Len(shape)), shape, TRUE, FALSE)

\* memref.copy of src into the sub-view of the destination at dstOffsets
CopyOp(src, dstOffsets, dstSizes) ==
  Instr("copy", src, "alloc", dstOffsets, dstSizes, TRUE, FALSE)

\* scf.if cond { linalg.fill other -> alloc }
FillIfOp(cond, shape) ==
  Instr("fill", NoView, "alloc", Zeros(Len(shape)), shape, cond, FALSE)

\* bufferization.to_tensor, restrict and writable
ToTensorOp(shape) ==
  Instr("to_tensor", NoView, "alloc", Zeros(Len(shape)), shape, TRUE, TRUE)

\* bufferization.materialize_in_destination with writable set
MaterializeInDestinationOp(src, target, dstSizes) ==
  Instr("materialize", src, target, Zeros(Len(dstSizes)), dstSizes, TRUE, TRUE)

\* getSubview: offsets 0, unit steps, extents dims
getSubview(dims, blk) == ViewRef(blk, [i \in 1..Len(dims) |-> dims[i].val])

\* faulty variant of createSideBySideCopies: the second chunk is placed below
\* the first instead of to its right
createSideBySideCopiesBelow(block1, block2) ==
  << CopyOp(block1, <<0, 0>>, <<block1.sizes[1], block1.sizes[2]>>),
     CopyOp(block2, <<block1.sizes[1], 0>>,
            <<block2.sizes[1], block2.sizes[2]>>) >>

createSideBySideCopies(block1, block2) ==
  << CopyOp(block1, <<0, 0>>, <<block1.sizes[1], block1.sizes[2]>>),
     CopyOp(block2, <<0, block1.sizes[2]>>,
            <<block2.sizes[1], block2.sizes[2]>>) >>

createStackedCopies(block1, block2) ==
  << CopyOp(block1, <<0, 0>>, <<block1.sizes[1], block1.sizes[2]>>),
     CopyOp(block2, <<block1.sizes[1], 0>>,
            <<block2.sizes[1], block2.sizes[2]>>) >>

getSideBySideSubviews(dims, block1, block2) ==
  LET subviewRowFull == dims[1]
      subviewColFull == dims[2]
      col1 == Dynamic(block1.sizes[2])
      subviewCol1 == minOFRs(col1, subviewColFull)
      subviewCol2 == subOFRs(subviewColFull, subviewCol1)
  IN  << ViewRef(block1.blk, <<subviewRowFull.val, subviewCol1.val>>),
         ViewRef(block2.blk, <<subviewRowFull.val, subviewCol2.val>>) >>

getStackedSubviews(dims, block1, block2) ==
  LET subviewRowFull == dims[1]
      subviewColFull == dims[2]
      row1 == Dynamic(block1.sizes[1])
      subviewRow1 == minOFRs(row1, subviewRowFull)
      subviewRow2 == subOFRs(subviewRowFull, subviewRow1)
  IN  << ViewRef(block1.blk, <<subviewRow1.val, subviewColFull.val>>),
         ViewRef(block2.blk, <<subviewRow2.val, subviewColFull.val>>) >>

\* the operands of the cast that defines a split pointer
Block1(cs) == ViewRef(1, cs[1].sizes)

Block2(cs) == ViewRef(2, cs[2].sizes)

isWrapped(attr) == attr = WRAP_SIDE_BY_SIDE \/ attr = WRAP_STACKED

rewriteStructuredLoad(op, cs, attr) ==
  << AllocOp(op.shape) >>
  \o (IF isWrapped(attr)
      THEN IF attr = WRAP_SIDE_BY_SIDE
           THEN createSideBySideCopies(Block1(cs), Block2(cs))
           ELSE createStackedCopies(Block1(cs), Block2(cs))
      ELSE << CopyOp(ViewRef(1, cs[1].sizes), Zeros(Len(op.shape)), op.shape) >>)
  \o << ToTensorOp(op.shape) >>

\* faulty variant of NeedsFill: the comparisons are and-accumulated
NeedsFillAll(mixedDims, shape) ==
  \A i \in 1..Len(shape) : mixedDims[i].val < shape[i]

\* the or-accumulation of dims[i] < shape[i] that conditions the fill
NeedsFill(mixedDims, shape) ==
  \E i \in 1..Len(shape) : mixedDims[i].val < shape[i]

\* faulty variant of rewriteMaskedLoad: the destination is filled after the
\* copies instead of before them
rewriteMaskedLoadFillLast(op, cs, attr) ==
  LET mixedDims == op.maskDims
  IN  << AllocOp(op.shape) >>
      \o (IF isWrapped(attr)
          THEN IF attr = WRAP_SIDE_BY_SIDE
               THEN LET sv == getSideBySideSubviews(mixedDims, Block1(cs),
                                                    Block2(cs))
                    IN  createSideBySideCopies(sv[1], sv[2])
               ELSE LET sv == getStackedSubviews(mixedDims, Block1(cs),
                                                 Block2(cs))
                    IN  createStackedCopies(sv[1], sv[2])
          ELSE LET srcSubview == getSubview(mixedDims, 1)
                   dstSubview == getSubview(mixedDims, 0)
               IN  << CopyOp(srcSubview, Zeros(Len(op.shape)),
                             dstSubview.sizes) >>)
      \o (IF op.other
          THEN << FillIfOp(NeedsFill(mixedDims, op.shape), op.shape) >>
          ELSE << >>)
      \o << ToTensorOp(op.shape) >>

rewriteMaskedLoad(op, cs, attr) ==
  LET mixedDims == op.maskDims
  IN  << AllocOp(op.shape) >>
      \o (IF op.other
          THEN << FillIfOp(NeedsFill(mixedDims, op.shape), op.shape) >>
          ELSE << >>)
      \o (IF isWrapped(attr)
          THEN IF attr = WRAP_SIDE_BY_SIDE
               THEN LET sv == getSideBySideSubviews(mixedDims, Block1(cs),
                                                    Block2(cs))
                    IN  createSideBySideCopies(sv[1], sv[2])
               ELSE LET sv == getStackedSubviews(mixedDims, Block1(cs),
                                                 Block2(cs))
                    IN  createStackedCopies(sv[1], sv[2])
          ELSE LET srcSubview == getSubview(mixedDims, 1)
                   dstSubview == getSubview(mixedDims, 0)
               IN  << CopyOp(srcSubview, Zeros(Len(op.shape)),
                             dstSubview.sizes) >>)
      \o << ToTensorOp(op.shape) >>

\* ------------------------------------------------------ the store lowerer
\* the operand the store writes through: the single view, or the cast that
\* bundles the two chunks of a split pointer
StoreTarget(attr) == IF isWrapped(attr) THEN "composite" ELSE "view"

\* getExtractSlice: the slice of the stored value with offsets 0 and extents dims
getExtractSlice(dims) == ViewRef(0, [i \in 1..Len(dims) |-> dims[i].val])

\* faulty variant of rewriteStore: the mask is ignored
rewriteStoreWhole(op, attr) ==
  << MaterializeInDestinationOp(ViewRef(0, op.shape), StoreTarget(attr),
                                op.shape) >>

rewriteStore(op, attr) ==
  IF op.hasMask
  THEN LET srcSlice == getExtractSlice(op.maskDims)
           dstSubview == getSubview(op.maskDims, 1)
       IN  << MaterializeInDestinationOp(srcSlice, StoreTarget(attr),
                                         dstSubview.sizes) >>
  ELSE << MaterializeInDestinationOp(ViewRef(0, op.shape), StoreTarget(attr),
                                     op.shape) >>

\* getSubview casts the type of its source to a memref type; the cast bundling
\* two chunks has the pointer's type, so the cast asserts, or, in a build
\* without assertions, goes on with the wrong type
StoreOutcomes(op, attr) ==
  IF op.hasMask /\ isWrapped(attr) THEN {"abort", "proceed"} ELSE {"proceed"}

\* ------------------------------------------- running the emitted instructions
MaxOf(sizes) ==
  IF sizes = <<>> THEN 0
  ELSE CHOOSE m \in {sizes[i] : i \in 1..Len(sizes)} :
         \A i \in 1..Len(sizes) : sizes[i] <= m

\* the indices of a buffer or view with the given extents
Indices(sizes) ==
  { f \in [1..Len(sizes) -> 0..(MaxOf(sizes) - 1)] :
      \A i \in 1..Len(sizes) : f[i] < sizes[i] }

UninitCell == [kind |-> "uninit", blk |-> 0, idx |-> <<>>, by |-> {}]

\* what a cell holds once instruction n has filled it
FillCell(c, n) == [kind |-> "fill", blk |-> 0, idx |-> <<>>, by |-> c.by \cup {n}]

\* what a cell holds once instruction n has copied element idx of view blk into it
SrcCell(c, n, blk, idx) ==
  [kind |-> "src", blk |-> blk, idx |-> idx, by |-> c.by \cup {n}]

\* memref.copy: element i of the source goes to element dstOffsets + i
RunCopy(buf, ins, n) ==
  [idx \in DOMAIN buf |->
     LET rel == [i \in 1..Len(idx) |-> idx[i] - ins.dstOffsets[i]]
     IN  IF \A i \in 1..Len(idx) : rel[i] >= 0 /\ rel[i] < ins.src.sizes[i]
         THEN SrcCell(buf[idx], n, ins.src.blk, rel)
         ELSE buf[idx]]

\* scf.if around linalg.fill
RunFill(buf, ins, n) ==
  IF ins.cond THEN [idx \in DOMAIN buf |-> FillCell(buf[idx], n)] ELSE buf

\* the elements of the target an operation writes
DstIndices(ins) ==
  { [i \in 1..Len(ins.dstSizes) |->
       ins.dstOffsets[i] + ins.dstSteps[i] * f[i]] :
      f \in Indices(ins.dstSizes) }

\* ------------------------------------------------------------- the inputs
Tuples(S, n) == [1..n -> S]

OffsetVals ==
  {Static(v) : v \in 0..MaxOffset} \cup {Dynamic(v) : v \in 0..MaxOffset}

StrideVals == {Static(v) : v \in 0..MaxStride} \cup {Dynamic(v) : v \in 0..1}

Bases == {"arg0", "arg1"}

ZeroShape(n) == [i \in 1..n |-> Static(0)]

DecreasingOrder(n) == [i \in 1..n |-> n - i]

\* tensor<sizes x !tt.ptr<f32>>
StructuredType(sizes) == [shape |-> sizes, tensorOf |-> [ptrTo |-> "f32"]]

\* !tt.ptr<tensor<sizes x f32>>
BlockType(sizes) == [ptrTo |-> [shape |-> sizes, tensorOf |-> "f32"]]

\* a tts.make_tptr operation
MakeTensorPtrOp(kind, base, offsets, strides, sizes, shape, order) ==
  [kind |-> kind, base |-> base, offsets |-> offsets, strides |-> strides,
   sizes |-> sizes, shape |-> shape, order |-> order,
   type |-> IF kind = "Block" THEN BlockType(sizes) ELSE StructuredType(sizes)]

\* 2-D structured and block pointers over every mix of static and run-time
\* offsets and strides
NonSplit2D ==
  { MakeTensorPtrOp(k, b, off, str, sz, ZeroShape(2), DecreasingOrder(2)) :
      k \in {"Block", "Structured"}, b \in Bases,
      off \in Tuples(OffsetVals, 2), str \in Tuples(StrideVals, 2),
      sz \in Tuples(1..MaxSize, 2) }

\* 3-D structured and block pointers
NonSplit3D ==
  { MakeTensorPtrOp(k, "arg0", off, str, sz, ZeroShape(3), DecreasingOrder(3)) :
      k \in {"Block", "Structured"},
      off \in { [i \in 1..3 |-> o] : o \in {Static(MaxOffset), Dynamic(MaxOffset)} },
      str \in Tuples(StrideVals, 3), sz \in Tuples(1..MaxSize, 3) }

\* pointers wrapping along the trailing axis with period N
SideBySideInputs ==
  { MakeTensorPtrOp("Split", "arg0", <<Static(o0), Static(o1)>>,
                    <<Static(sr), Static(sc)>>, <<rowSize, colSize>>,
                    <<Static(0), modN>>, DecreasingOrder(2)) :
      o0 \in 0..MaxMod, o1 \in 0..MaxMod, sr \in 1..MaxStride,
      sc \in 1..MaxStride, rowSize \in 1..MaxSize, colSize \in 1..MaxMod,
      modN \in {Static(n) : n \in 1..MaxMod} \cup {Dynamic(n) : n \in 1..MaxMod} }

\* pointers wrapping along the leading axis: modRow is rows * strideRow and
\* the start lies inside the first period
StackedSplit ==
  { p \in { MakeTensorPtrOp("Split", "arg0", <<Static(o0), Static(o1)>>,
                            <<Static(sr), Static(sc)>>, <<rowSize, colSize>>,
                            <<Dynamic(rows * sr), Static(0)>>,
                            DecreasingOrder(2)) :
             o0 \in 0..(MaxMod * MaxStride), o1 \in 0..MaxOffset,
             sr \in 1..MaxStride, sc \in 1..MaxStride, rows \in 1..MaxMod,
             rowSize \in 1..MaxSize, colSize \in 1..MaxSize } :
      p.offsets[1].val + p.offsets[2].val < p.shape[1].val }

\* every dimension order, on otherwise plain pointers of each kind
OrderInputs2D ==
  { MakeTensorPtrOp(k, "arg0", <<Static(0), Static(0)>>,
                    <<Static(MaxStride), Static(1)>>, <<MaxSize, MaxSize>>,
                    ZeroShape(2), o) :
      k \in {"Block", "Structured"}, o \in Tuples(0..1, 2) }
  \cup
  { MakeTensorPtrOp("Split", "arg0", <<Static(0), Static(0)>>,
                    <<Static(MaxStride), Static(1)>>, <<MaxSize, MaxSize>>,
                    shape, o) :
      shape \in { <<Static(0), Dynamic(MaxMod)>>,
                  <<Dynamic(MaxMod * MaxStride), Static(0)>> },
      o \in Tuples(0..1, 2) }

OrderInputs3D ==
  { MakeTensorPtrOp(k, "arg0", [i \in 1..3 |-> Static(MaxOffset)],
                    <<Static(MaxStride), Static(MaxStride), Static(1)>>,
                    <<MaxSize, MaxSize, MaxSize>>, ZeroShape(3), o) :
      k \in {"Block", "Structured"}, o \in Tuples(0..2, 3) }

\* the pointers that have a user in the IR: 2-D, rows MaxStride apart, columns
\* contiguous, starting in the first column
HasUser(p) ==
  /\ Len(p.sizes) = 2
  /\ p.order = DecreasingOrder(2)
  /\ p.base = "arg0"
  /\ p.strides = <<Static(MaxStride), Static(1)>>
  /\ p.offsets[1].static
  /\ p.offsets[2] = Static(0)
  /\ isSplitPtr(p) =>
       /\ ~p.shape[1].static \/ ~p.shape[2].static
       /\ p.shape[1].static => p.sizes[2] <= p.shape[2].val

NoUser ==
  [op |-> "none", shape |-> <<>>, hasMask |-> FALSE, maskDims |-> <<>>,
   other |-> FALSE]

\* the valid extents a mask can carry for a tensor of the given shape
MaskDims(shape) ==
  { m \in Tuples({Static(v) : v \in 0..MaxSize}
                 \cup {Dynamic(v) : v \in 0..MaxSize}, Len(shape)) :
      \A i \in 1..Len(shape) : m[i].val <= shape[i] }

\* tts.load: unmasked without a fill value, masked with or without one
LoadOps(p) ==
  { [op |-> "load", shape |-> p.sizes, hasMask |-> FALSE, maskDims |-> <<>>,
      other |-> FALSE] }
  \cup { [op |-> "load", shape |-> p.sizes, hasMask |-> TRUE, maskDims |-> m,
           other |-> o] :
           m \in MaskDims(p.sizes), o \in BOOLEAN }

\* tts.store
StoreOps(p) ==
  { [op |-> "store", shape |-> p.sizes, hasMask |-> FALSE, maskDims |-> <<>>,
      other |-> FALSE] }
  \cup { [op |-> "store", shape |-> p.sizes, hasMask |-> TRUE, maskDims |-> m,
           other |-> FALSE] :
           m \in MaskDims(p.sizes) }

UserInputs(p) ==
  {NoUser} \cup (IF HasUser(p) THEN LoadOps(p) \cup StoreOps(p) ELSE {})

\* --------------------------------------------------------------- the state
VARIABLES
  ptrOp,        \* the tts.make_tptr operation
  ptrStatus,    \* "pending", "replaced" or "failed"
  casts,        \* the reinterpret casts that replaced it
  wrapAttr,     \* the marker on the cast bundling two chunks
  castPresent,  \* the bundling cast is (still) in the IR
  diag,         \* the diagnostics emitted
  userOp,       \* the load or store using the pointer
  userStatus,   \* "pending", "replaced", "erased" or "aborted"
  emitted,      \* the instructions the user's lowering emitted, in order
  pc,           \* number of emitted instructions already run
  dst,          \* the load's destination buffer: index -> cell
  tensor,       \* the immutable value the load yields
  stored        \* the destination elements a store wrote

vars ==
  << ptrOp, ptrStatus, casts, wrapAttr, castPresent, diag, userOp, userStatus,
     emitted, pc, dst, tensor, stored >>

\* the IR before the conversion: a pointer drawn from S and its user, if any
InitWith(S) ==
  /\ ptrOp \in S
  /\ userOp \in UserInputs(ptrOp)
  /\ ptrStatus = "pending"
  /\ casts = <<>>
  /\ wrapAttr = NoWrap
  /\ castPresent = FALSE
  /\ diag = <<>>
  /\ userStatus = "pending"
  /\ emitted = <<>>
  /\ pc = 0
  /\ dst = <<>>
  /\ tensor = <<>>
  /\ stored = {}

Init ==
  \/ InitWith(NonSplit2D)
  \/ InitWith(NonSplit3D)
  \/ InitWith(SideBySideInputs)
  \/ InitWith(StackedSplit)
  \/ InitWith(OrderInputs2D)
  \/ InitWith(OrderInputs3D)

\* MakeTensorPtrConverter::matchAndRewrite
MakeTensorPtrConverter ==
  /\ ptrStatus = "pending"
  /\ IF ~isSortedGreater(ptrOp.order)
     THEN /\ diag' = Append(diag, OrderDiagnostic)
          /\ ptrStatus' = "failed"
          /\ UNCHANGED << casts, wrapAttr, castPresent >>
     ELSE LET r == IF isBlockPtr(ptrOp) THEN rewriteBlockPtr(ptrOp)
                   ELSE IF isStructuredPtr(ptrOp)
                        THEN rewriteStructuredPtr(ptrOp)
                        ELSE rewriteSplitPtr(ptrOp)
          IN  /\ casts' = r.casts
              /\ wrapAttr' = r.attr
              /\ castPresent' = isSplitPtr(ptrOp)
              /\ ptrStatus' = "replaced"
              /\ UNCHANGED diag
  /\ UNCHANGED << ptrOp, userOp, userStatus, emitted, pc, dst, tensor, stored >>

\* LoadConverter::matchAndRewrite, on a load whose pointer has been replaced
LoadConverter ==
  /\ userOp.op = "load"
  /\ userStatus = "pending"
  /\ ptrStatus = "replaced"
  /\ emitted' = IF userOp.hasMask
                THEN rewriteMaskedLoad(userOp, casts, wrapAttr)
                ELSE rewriteStructuredLoad(userOp, casts, wrapAttr)
  /\ castPresent' = IF userOp.hasMask /\ isWrapped(wrapAttr)
                    THEN FALSE ELSE castPresent
  /\ userStatus' = "replaced"
  /\ UNCHANGED << ptrOp, ptrStatus, casts, wrapAttr, diag, userOp, pc, dst,
                  tensor, stored >>

\* StoreConverter::matchAndRewrite, on a store whose pointer has been replaced
StoreConverter ==
  /\ userOp.op = "store"
  /\ userStatus = "pending"
  /\ ptrStatus = "replaced"
  /\ \E outcome \in StoreOutcomes(userOp, wrapAttr) :
       IF outcome = "abort"
       THEN /\ userStatus' = "aborted"
            /\ UNCHANGED emitted
       ELSE /\ emitted' = rewriteStore(userOp, wrapAttr)
            /\ userStatus' = "erased"
  /\ UNCHANGED << ptrOp, ptrStatus, casts, wrapAttr, castPresent, diag, userOp,
                  pc, dst, tensor, stored >>

\* the next emitted instruction is op
NextIs(op) ==
  /\ userStatus \in {"replaced", "erased"}
  /\ pc < Len(emitted)
  /\ emitted[pc + 1].op = op

ExecAlloc ==
  /\ NextIs("alloc")
  /\ dst' = [idx \in Indices(emitted[pc + 1].dstSizes) |-> UninitCell]
  /\ pc' = pc + 1
  /\ UNCHANGED << ptrOp, ptrStatus, casts, wrapAttr, castPresent, diag, userOp,
                  userStatus, emitted, tensor, stored >>

ExecFill ==
  /\ NextIs("fill")
  /\ dst' = RunFill(dst, emitted[pc + 1], pc + 1)
  /\ pc' = pc + 1
  /\ UNCHANGED << ptrOp, ptrStatus, casts, wrapAttr, castPresent, diag, userOp,
                  userStatus, emitted, tensor, stored >>

ExecCopy ==
  /\ NextIs("copy")
  /\ dst' = RunCopy(dst, emitted[pc + 1], pc + 1)
  /\ pc' = pc + 1
  /\ UNCHANGED << ptrOp, ptrStatus, casts, wrapAttr, castPresent, diag, userOp,
                  userStatus, emitted, tensor, stored >>

ExecToTensor ==
  /\ NextIs("to_tensor")
  /\ tensor' = dst
  /\ pc' = pc + 1
  /\ UNCHANGED << ptrOp, ptrStatus, casts, wrapAttr, castPresent, diag, userOp,
                  userStatus, emitted, dst, stored >>

ExecMaterialize ==
  /\ NextIs("materialize")
  /\ stored' = stored \cup DstIndices(emitted[pc + 1])
  /\ pc' = pc + 1
  /\ UNCHANGED << ptrOp, ptrStatus, casts, wrapAttr, castPresent, diag, userOp,
                  userStatus, emitted, dst, tensor >>

Next ==
  \/ MakeTensorPtrConverter
  \/ LoadConverter
  \/ StoreConverter
  \/ ExecAlloc
  \/ ExecFill
  \/ ExecCopy
  \/ ExecToTensor
  \/ ExecMaterialize

Spec == Init /\ [][Next]_vars

\* ---------------------------------------------------------------- claims
\* the pointer was replaced by a single view
SingleView == ptrStatus = "replaced" /\ wrapAttr = NoWrap

\* the pointer was replaced by two side-by-side chunks
SideBySide == ptrStatus = "replaced" /\ wrapAttr = WRAP_SIDE_BY_SIDE

\* the pointer was replaced by two stacked chunks
Stacked == ptrStatus = "replaced" /\ wrapAttr = WRAP_STACKED

RECURSIVE SumVals(_, _)
\* the sum of the values of offsets[1..i]
SumVals(offsets, i) ==
  IF i = 0 THEN 0 ELSE offsets[i].val + SumVals(offsets, i - 1)

TargetOffset == SumVals(ptrOp.offsets, Len(ptrOp.offsets))

StrictlyDecreasing(order) ==
  \A i \in 1..(Len(order) - 1) : order[i + 1] < order[i]

\* the load or store was lowered and every emitted instruction has run
UserDone ==
  userStatus \in {"replaced", "erased"} /\ pc = Len(emitted)

\* C1: the row counts of the two stacked chunks lie between 0 and rowSize and
\* add up to rowSize, d1 being the number of whole rows up to the wrap clamped
\* at rowSize, also when the requested rows do not reach the wrap
C1_StackedExtents ==
  Stacked =>
    LET rowSize == ptrOp.sizes[1]
        strideRow == ptrOp.strides[1].val
        modRow == ptrOp.shape[1].val
        d1 == casts[1].sizes[1]
        d2 == casts[2].sizes[1]
    IN  /\ 0 <= d1 /\ d1 <= rowSize
        /\ 0 <= d2 /\ d2 <= rowSize
        /\ d1 + d2 = rowSize
        /\ d1 = Min((modRow + (TargetOffset % strideRow) - TargetOffset)
                      \div strideRow, rowSize)

\* C2: for colSize <= N the widths of the two side-by-side chunks are
\* d1 = min(x + colSize, N) - x and d2 = colSize - d1 with 1 <= d1 <= colSize
\* and 0 <= d2 < colSize, and both chunks keep rowSize rows
C2_SideBySideExtents ==
  (SideBySide /\ ptrOp.sizes[2] <= ptrOp.shape[2].val) =>
    LET rowSize == ptrOp.sizes[1]
        colSize == ptrOp.sizes[2]
        N == ptrOp.shape[2].val
        x == TargetOffset % N
        d1 == casts[1].sizes[2]
        d2 == casts[2].sizes[2]
    IN  /\ d1 = (IF x + colSize < N THEN x + colSize ELSE N) - x
        /\ d2 = colSize - d1
        /\ d1 + d2 = colSize
        /\ 1 <= d1 /\ d1 <= colSize
        /\ 0 <= d2 /\ d2 < colSize
        /\ casts[1].sizes[1] = rowSize
        /\ casts[2].sizes[1] = rowSize

\* C2 witness: a side-by-side pointer starting in a later row whose request
\* crosses the wrap
C2_Witness ==
  /\ SideBySide
  /\ ptrOp.sizes[2] <= ptrOp.shape[2].val
  /\ TargetOffset >= ptrOp.shape[2].val
  /\ casts[2].sizes[2] > 0

\* the linear address of element (r, c) of a 2-D view
Address(view, r, c) ==
  view.offset.val + r * view.strides[1].val + c * view.strides[2].val

\* C3: the two side-by-side chunks alias exactly the addresses
\* y + r*strideRow + ((x + c) mod N)*strideCol of the logical wrapped region,
\* every logical element (r, c) being aliased by one chunk only
C3_SideBySideCoverage ==
  (SideBySide /\ ptrOp.sizes[2] <= ptrOp.shape[2].val) =>
    LET rowSize == ptrOp.sizes[1]
        colSize == ptrOp.sizes[2]
        strideRow == ptrOp.strides[1].val
        strideCol == ptrOp.strides[2].val
        N == ptrOp.shape[2].val
        x == TargetOffset % N
        y == TargetOffset - x
        d1 == casts[1].sizes[2]
        d2 == casts[2].sizes[2]
        Logical(r, c) == y + r * strideRow + ((x + c) % N) * strideCol
        chunk1 == { Address(casts[1], r, c) :
                      r \in 0..(casts[1].sizes[1] - 1), c \in 0..(d1 - 1) }
        chunk2 == { Address(casts[2], r, c) :
                      r \in 0..(casts[2].sizes[1] - 1), c \in 0..(d2 - 1) }
    IN  /\ chunk1 \cup chunk2 =
             { Logical(r, c) : r \in 0..(rowSize - 1), c \in 0..(colSize - 1) }
        /\ \A r \in 0..(rowSize - 1) :
             /\ \A c \in 0..(d1 - 1) : Address(casts[1], r, c) = Logical(r, c)
             /\ \A c \in 0..(d2 - 1) :
                  Address(casts[2], r, c) = Logical(r, d1 + c)

\* C4: the rows of the first stacked chunk followed by those of the second are
\* the rowSize logical rows, starting at
\* wrapped + ((targetOffset - wrapped + r*strideRow) mod modRow), in that
\* order, and both chunks keep colSize and both strides
C4_StackedCoverage ==
  Stacked =>
    LET rowSize == ptrOp.sizes[1]
        colSize == ptrOp.sizes[2]
        strideRow == ptrOp.strides[1].val
        strideCol == ptrOp.strides[2].val
        modRow == ptrOp.shape[1].val
        wrapped == TargetOffset % strideRow
        rows1 == [j \in 1..casts[1].sizes[1] |-> Address(casts[1], j - 1, 0)]
        rows2 == [j \in 1..casts[2].sizes[1] |-> Address(casts[2], j - 1, 0)]
    IN  /\ rows1 \o rows2 =
             [r \in 1..rowSize |->
                wrapped
                + ((TargetOffset - wrapped + (r - 1) * strideRow) % modRow)]
        /\ \A k \in 1..2 :
             /\ casts[k].sizes[2] = colSize
             /\ casts[k].strides[1].val = strideRow
             /\ casts[k].strides[2].val = strideCol

RECURSIVE ProductOver(_, _)
\* the product of sizes[j] over the indices j in the set J
ProductOver(sizes, J) ==
  IF J = {} THEN 1
  ELSE LET j == CHOOSE k \in J : TRUE
       IN  sizes[j] * ProductOver(sizes, J \ {j})

\* a dimension of static size 1 whose stride folds to the constant 0
ZeroStrideDim(i) ==
  /\ ptrOp.sizes[i] = 1
  /\ ptrOp.strides[i].static
  /\ ptrOp.strides[i].val = 0

\* C5 as stated: the stride of such a dimension becomes the product of the
\* sizes of the dimensions with smaller index; other strides are unchanged
C5_ZeroStrideSmallerIndex ==
  SingleView =>
    \A i \in 1..Len(ptrOp.sizes) :
      casts[1].strides[i] =
        IF ZeroStrideDim(i)
        THEN Static(ProductOver(ptrOp.sizes, 1..(i - 1)))
        ELSE ptrOp.strides[i]

\* C5 amended: the stride of such a dimension becomes the product of the
\* sizes of the dimensions with larger index (the inner dimensions); other
\* strides are unchanged
C5_ZeroStrideLargerIndex ==
  SingleView =>
    \A i \in 1..Len(ptrOp.sizes) :
      casts[1].strides[i] =
        IF ZeroStrideDim(i)
        THEN Static(ProductOver(ptrOp.sizes, (i + 1)..Len(ptrOp.sizes)))
        ELSE ptrOp.strides[i]

\* C5 witness: a 3-D pointer whose middle dimension has size 1 and stride 0,
\* where the sizes before and after it differ
C5_Witness ==
  /\ SingleView
  /\ Len(ptrOp.sizes) = 3
  /\ ZeroStrideDim(2)
  /\ ptrOp.sizes[1] # ptrOp.sizes[3]
  /\ casts[1].strides[2] = Static(ptrOp.sizes[3])

\* the same pointer of the other kind, block for structured and back
Twin(p) ==
  MakeTensorPtrOp(IF isBlockPtr(p) THEN "Structured" ELSE "Block", p.base,
                  p.offsets, p.strides, p.sizes, p.shape, p.order)

\* the view the materializer produces for a non-split pointer
ViewOf(p) ==
  (IF isBlockPtr(p) THEN rewriteBlockPtr(p) ELSE rewriteStructuredPtr(p)).casts[1]

\* C6: a structured or block pointer with strictly decreasing order becomes
\* one view whose offset is the sum of the offsets, whose shape is the
\* requested sizes and whose base is the pointer's; the pointer of the other
\* kind with the same offsets, strides and sizes gives the same offset,
\* strides and shape
C6_NonSplitOffset ==
  (ptrStatus = "replaced" /\ ~isSplitPtr(ptrOp)
     /\ StrictlyDecreasing(ptrOp.order)) =>
    /\ Len(casts) = 1
    /\ wrapAttr = NoWrap
    /\ casts[1].offset.val = TargetOffset
    /\ casts[1].offset.static = (\A i \in 1..Len(ptrOp.offsets) :
                                   ptrOp.offsets[i].static)
    /\ casts[1].sizes = ptrOp.sizes
    /\ casts[1].type.shape = ptrOp.sizes
    /\ casts[1].base = ptrOp.base
    /\ casts[1].offset = ViewOf(Twin(ptrOp)).offset
    /\ casts[1].strides = ViewOf(Twin(ptrOp)).strides
    /\ casts[1].sizes = ViewOf(Twin(ptrOp)).sizes
    /\ casts[1].type.shape = ViewOf(Twin(ptrOp)).type.shape

\* C6 witness: a replaced block pointer on the second base whose offsets are
\* both non-zero, one of them a run-time value
C6_Witness ==
  /\ ptrStatus = "replaced"
  /\ isBlockPtr(ptrOp)
  /\ StrictlyDecreasing(ptrOp.order)
  /\ ptrOp.base = "arg1"
  /\ ptrOp.offsets[1].val > 0 /\ ptrOp.offsets[2].val > 0
  /\ ~ptrOp.offsets[2].static
  /\ casts[1].offset.val = ptrOp.offsets[1].val + ptrOp.offsets[2].val

\* an unmasked load through a split pair, lowered and run
UnmaskedSplitLoadDone ==
  /\ userOp.op = "load"
  /\ ~userOp.hasMask
  /\ isWrapped(wrapAttr)
  /\ userStatus = "replaced"
  /\ UserDone

\* the axis a split pair is split along: 2 (trailing) for side-by-side, 1
\* (leading) for stacked
SplitAxis == IF wrapAttr = WRAP_SIDE_BY_SIDE THEN 2 ELSE 1

\* the element of the split pair that is element idx of the logical tensor:
\* of chunk 1 below d1 on the split axis, of chunk 2 from d1 on
SplitSource(idx) ==
  LET a == SplitAxis
      d1 == casts[1].sizes[a]
  IN  IF idx[a] < d1 THEN [blk |-> 1, idx |-> idx]
      ELSE [blk |-> 2, idx |-> [idx EXCEPT ![a] = idx[a] - d1]]

\* C7: an unmasked load through a split pair with extents d1, d2 >= 0 and
\* d1 + d2 the requested size copies chunk 1 to [0, d1) and chunk 2 to
\* [d1, d1 + d2) of the split axis, offset 0 and full extent on the other
\* axis, and every destination element is written by exactly one copy
C7_UnmaskedSplitPlacement ==
  (UnmaskedSplitLoadDone
     /\ casts[1].sizes[SplitAxis] >= 0 /\ casts[2].sizes[SplitAxis] >= 0
     /\ casts[1].sizes[SplitAxis] + casts[2].sizes[SplitAxis]
          = userOp.shape[SplitAxis]) =>
    LET a == SplitAxis
        b == 3 - a
        d1 == casts[1].sizes[a]
        d2 == casts[2].sizes[a]
        copies == { n \in 1..Len(emitted) : emitted[n].op = "copy" }
    IN  /\ copies = {2, 3}
        /\ emitted[2].src = ViewRef(1, casts[1].sizes)
        /\ emitted[3].src = ViewRef(2, casts[2].sizes)
        /\ emitted[2].dstOffsets = <<0, 0>>
        /\ emitted[2].dstSizes[a] = d1
        /\ emitted[3].dstOffsets[a] = d1
        /\ emitted[3].dstOffsets[b] = 0
        /\ emitted[3].dstSizes[a] = d2
        /\ emitted[2].dstSizes[b] = userOp.shape[b]
        /\ emitted[3].dstSizes[b] = userOp.shape[b]
        /\ DOMAIN tensor = Indices(userOp.shape)
        /\ \A idx \in Indices(userOp.shape) :
             /\ tensor[idx].kind = "src"
             /\ tensor[idx].by = (IF idx[a] < d1 THEN {2} ELSE {3})
             /\ tensor[idx].blk = SplitSource(idx).blk
             /\ tensor[idx].idx = SplitSource(idx).idx

\* C7 witness: a side-by-side load, run to the end, both of whose chunks are
\* not empty
C7_Witness ==
  /\ UnmaskedSplitLoadDone
  /\ wrapAttr = WRAP_SIDE_BY_SIDE
  /\ casts[1].sizes[2] > 0 /\ casts[2].sizes[2] > 0
  /\ casts[1].sizes[2] + casts[2].sizes[2] = userOp.shape[2]
  /\ userOp.shape[1] > 1

\* index idx lies inside the mask's valid extents
InMask(idx) == \A i \in 1..Len(idx) : idx[i] < userOp.maskDims[i].val

\* a masked load with a fill value, one of whose valid extents is smaller
\* than the shape, lowered and run
MaskedFillLoadDone ==
  /\ userOp.op = "load"
  /\ userOp.hasMask
  /\ userOp.other
  /\ \A i \in 1..Len(userOp.shape) :
       0 <= userOp.maskDims[i].val /\ userOp.maskDims[i].val <= userOp.shape[i]
  /\ \E i \in 1..Len(userOp.shape) : userOp.maskDims[i].val < userOp.shape[i]
  /\ userStatus = "replaced"
  /\ UserDone

\* C8: after such a load has run every element outside the mask holds the
\* fill value and every element inside it the corresponding source element,
\* for a single view, a side-by-side pair and a stacked pair
C8_MaskedFill ==
  MaskedFillLoadDone =>
    /\ DOMAIN tensor = Indices(userOp.shape)
    /\ \A idx \in Indices(userOp.shape) :
         IF InMask(idx)
         THEN /\ tensor[idx].kind = "src"
              /\ tensor[idx].blk =
                   (IF isWrapped(wrapAttr) THEN SplitSource(idx).blk ELSE 1)
              /\ tensor[idx].idx =
                   (IF isWrapped(wrapAttr) THEN SplitSource(idx).idx ELSE idx)
         ELSE tensor[idx].kind = "fill"

\* C8 witness: a stacked load masked on the columns only whose valid rows
\* come from both chunks
C8_Witness ==
  /\ MaskedFillLoadDone
  /\ wrapAttr = WRAP_STACKED
  /\ userOp.maskDims[1].val = userOp.shape[1]
  /\ userOp.maskDims[2].val > 0
  /\ casts[1].sizes[1] > 0 /\ casts[1].sizes[1] < userOp.maskDims[1].val
  /\ \E idx \in DOMAIN tensor : tensor[idx].kind = "src" /\ tensor[idx].blk = 2
  /\ \E idx \in DOMAIN tensor : tensor[idx].kind = "fill"

\* C9: an order that is not strictly decreasing gets the diagnostic and a
\* failure with nothing emitted or replaced, and a strictly decreasing order
\* gets no diagnostic
C9_OrderPrecondition ==
  ptrStatus # "pending" =>
    IF StrictlyDecreasing(ptrOp.order)
    THEN diag = <<>>
    ELSE /\ diag = <<OrderDiagnostic>>
         /\ ptrStatus = "failed"
         /\ casts = <<>>
         /\ wrapAttr = NoWrap
         /\ ~castPresent

\* C10: a store through a split pointer is not converted: no materialize
\* into the composite is emitted and the store is not erased
C10_SplitStoreUnsupported ==
  (userOp.op = "store" /\ isWrapped(wrapAttr)) =>
    /\ userStatus # "erased"
    /\ \A n \in 1..Len(emitted) :
         ~(emitted[n].op = "materialize" /\ emitted[n].target = "composite")

\* the values of a list of mixed quantities
Vals(dims) == [i \in 1..Len(dims) |-> dims[i].val]

\* a store through a single view, lowered
StoreThroughViewLowered ==
  /\ userOp.op = "store"
  /\ SingleView
  /\ userStatus = "erased"

\* C11: a store through a non-split view becomes exactly one writable
\* materialize-into-destination and no allocation, fill or copy; unmasked the
\* whole value goes into the whole view; masked the source slice and the
\* destination sub-view have offsets 0, unit steps and the mask's valid
\* extents, and no destination element outside the mask is written
C11_StoreShape ==
  StoreThroughViewLowered =>
    LET extents == IF userOp.hasMask THEN Vals(userOp.maskDims)
                   ELSE userOp.shape
        rank == Len(userOp.shape)
    IN  /\ Len(emitted) = 1
        /\ emitted[1].op = "materialize"
        /\ emitted[1].writable
        /\ emitted[1].target = "view"
        /\ emitted[1].cond
        /\ dst = <<>>
        /\ emitted[1].src.blk = 0
        /\ emitted[1].src.sizes = extents
        /\ emitted[1].src.offsets = Zeros(rank)
        /\ emitted[1].src.steps = Ones(rank)
        /\ emitted[1].dstSizes = extents
        /\ emitted[1].dstOffsets = Zeros(rank)
        /\ emitted[1].dstSteps = Ones(rank)
        /\ stored \subseteq Indices(extents)
        /\ UserDone => stored = Indices(extents)

\* C11 witness: a masked store, run, that wrote some but not all elements of
\* the view, one valid extent being a run-time value
C11_Witness ==
  /\ StoreThroughViewLowered
  /\ UserDone
  /\ userOp.hasMask
  /\ \E i \in 1..2 : ~userOp.maskDims[i].static
  /\ stored # {}
  /\ stored # Indices(userOp.shape)

\* a load, lowered
LoadLowered == userOp.op = "load" /\ userStatus = "replaced"

\* the positions of the emitted instructions of kind op
Positions(op) == { n \in 1..Len(emitted) : emitted[n].op = op }

\* C12: a lowered load emits the allocation of its destination, then the
\* optional pre-fill, then the copies, then exactly one conversion of the
\* destination to a value; no fill or copy follows the conversion, the fill
\* follows no copy, nothing else uses the destination, and once converted the
\* destination is not written again
C12_DestinationLifecycle ==
  LoadLowered =>
    LET last == Len(emitted)
    IN  /\ Positions("alloc") = {1}
        /\ Positions("to_tensor") = {last}
        /\ Positions("materialize") = {}
        /\ Positions("fill") =
             (IF userOp.hasMask /\ userOp.other THEN {2} ELSE {})
        /\ Positions("copy") # {}
        /\ Cardinality(Positions("copy")) = (IF isWrapped(wrapAttr) THEN 2 ELSE 1)
        /\ Positions("alloc") \cup Positions("fill") \cup Positions("copy")
             \cup Positions("to_tensor") = 1..last
        /\ \A k \in Positions("fill"), n \in Positions("copy") : k < n
        /\ \A n \in Positions("copy") \cup Positions("fill") : 1 < n /\ n < last
        /\ \A n \in 1..last : emitted[n].target = "alloc"
        /\ emitted[1].dstSizes = userOp.shape
        /\ emitted[last].dstSizes = userOp.shape
        /\ stored = {}
        /\ (tensor # <<>>) => (pc = last /\ tensor = dst)
        /\ (tensor = <<>>) => pc < last
        /\ \A idx \in DOMAIN dst :
             /\ dst[idx].by \subseteq
                  ((Positions("fill") \cup Positions("copy")) \cap 1..pc)
             /\ dst[idx].kind = "fill" => dst[idx].by \subseteq Positions("fill")

\* C12 witness: a masked load with a fill value through a split pair, run to
\* the end: five instructions, the destination converted
C12_Witness ==
  /\ LoadLowered
  /\ isWrapped(wrapAttr)
  /\ userOp.hasMask /\ userOp.other
  /\ Len(emitted) = 5
  /\ pc = 5
  /\ tensor # <<>>
  /\ \E idx \in DOMAIN tensor : tensor[idx].by = {2, 3}

\* C13: no view the materializer produces, single or chunk of a split pair,
\* carries a stride that is the compile-time constant 0, whatever the sizes
\* and strides of the pointer, a dimension of size greater than 1 with
\* stride 0 included
C13_NoZeroStride ==
  ptrStatus = "replaced" =>
    \A k \in 1..Len(casts) :
      \A i \in 1..Len(casts[k].strides) : casts[k].strides[i] # Static(0)

\* the n-th copy a lowered load emitted
CopyAt(n) ==
  LET first == CHOOSE k \in Positions("copy") :
                 \A j \in Positions("copy") : k <= j
  IN  emitted[first + n - 1]

\* a masked load through a split pair, lowered
MaskedSplitLoadLowered ==
  /\ LoadLowered
  /\ userOp.hasMask
  /\ isWrapped(wrapAttr)

\* C14: in a masked load through a split pair with chunk extents e1, e2 on
\* the split axis and valid extent 0 <= m <= e1 + e2 on it, chunk 1
\* contributes min(e1, m) and chunk 2 m - min(e1, m), which is not negative
\* and not more than e2; the two sub-regions are adjacent in the destination
\* from 0 on the split axis and both have the mask's valid extent on the
\* other axis
C14_MaskedSplitExtents ==
  MaskedSplitLoadLowered =>
    LET a == SplitAxis
        b == 3 - a
        e1 == casts[1].sizes[a]
        e2 == casts[2].sizes[a]
        m == userOp.maskDims[a].val
        c1 == CopyAt(1)
        c2 == CopyAt(2)
    IN  (0 <= m /\ m <= e1 + e2) =>
          /\ c1.src.blk = 1 /\ c2.src.blk = 2
          /\ c1.src.sizes[a] = Min(e1, m)
          /\ c2.src.sizes[a] = m - Min(e1, m)
          /\ c2.src.sizes[a] >= 0
          /\ c2.src.sizes[a] <= e2
          /\ c1.dstOffsets = <<0, 0>>
          /\ c1.dstSizes = c1.src.sizes
          /\ c2.dstOffsets[a] = c1.src.sizes[a]
          /\ c2.dstOffsets[b] = 0
          /\ c2.dstSizes = c2.src.sizes
          /\ c1.src.sizes[b] = userOp.maskDims[b].val
          /\ c2.src.sizes[b] = userOp.maskDims[b].val

\* C15: lowering a load, masked or unmasked, leaves the operation defining
\* its pointer in place: after it the cast bundling the two chunks of a
\* split pointer is still present, with its two views and its marker
C15_PointerNotConsumed ==
  (LoadLowered /\ isSplitPtr(ptrOp)) =>
    /\ castPresent
    /\ Len(casts) = 2
    /\ isWrapped(wrapAttr)
    /\ ptrStatus = "replaced"

\* the start of a stacked split pointer lies inside the first period
StartInFirstPeriod ==
  wrapAttr = WRAP_STACKED => TargetOffset < ptrOp.shape[1].val

\* the valid extents of a mask lie between 0 and the shape
MaskInShape ==
  userOp.hasMask =>
    \A i \in 1..Len(userOp.shape) :
      0 <= userOp.maskDims[i].val /\ userOp.maskDims[i].val <= userOp.shape[i]

\* C16: in a lowered load whose mask extents lie between 0 and the shape and
\* whose split start lies inside the first period, every copy has a source
\* and a destination of the same extents, no extent is negative, and every
\* destination sub-region lies inside the allocated destination
C16_CopiesInBounds ==
  (LoadLowered /\ MaskInShape /\ StartInFirstPeriod) =>
    \A n \in Positions("copy") :
      /\ emitted[n].src.sizes = emitted[n].dstSizes
      /\ \A i \in 1..Len(userOp.shape) :
           /\ emitted[n].dstSizes[i] >= 0
           /\ emitted[n].dstOffsets[i] >= 0
           /\ emitted[n].dstOffsets[i] + emitted[n].dstSizes[i]
                <= emitted[1].dstSizes[i]

====
